---- MODULE Spec2Model ----
(***************************************************************************)
(* Model of the shared orchestration core of entity-agents-node:           *)
(* BaseAgent (runTask, requestApproval, commitChanges, getStatus), the     *)
(* GitClient it drives, and the Quinn / Vera entity methods that request   *)
(* approval before they run a task.                                        *)
(*                                                                         *)
(* Every async method is a sequence of steps, one per await: a step runs   *)
(* the synchronous code up to the next await.  Several calls may be in     *)
(* flight on one entity (the slots of Calls), and their steps interleave   *)
(* as the Node event loop lets them.                                       *)
(***************************************************************************)
EXTENDS Integers, Sequences, FiniteSets, TLC

\* ---------------------------------------------------------------- bounds

\* Number of runTask / requestApproval invocations made in one run.
MaxStarts == 2
\* Number of entity-method invocations made in one run.
MaxEntityCalls == 1
\* Number of commitChanges invocations made in one run.
MaxCommits == 2
\* Largest reading of Date.now() (milliseconds since the entity was built).
MaxClock == 1
\* Longest prompt, in characters, given to the command-line builder.
MaxLen == 3

\* The calls that can be in flight at once on the entity.
Calls == {"c1", "c2"}

VARIABLES
    pc,                 \* per call: the await the call is suspended at
    frame,              \* per call: method, arguments, locals, return value
    proc,               \* per call: the processes execAsync spawned for it
    clock,              \* Date.now()
    taskHistory,        \* BaseAgent.taskHistory
    pendingApprovals,   \* BaseAgent.pendingApprovals
    approvalsFile,      \* contents of <outputDir>/pending_approvals.json
    started,            \* number of invocations made so far
    worktree,           \* git: tracked files with unstaged modifications
    index,              \* git: staged files
    head,               \* git: number of commits on HEAD
    sh,                 \* a command line handed to /bin/sh -c
    notif,              \* Notifier: configuration, channel health, log file
    lookup,             \* getAgent: the name looked up and what came of it
    returns,            \* number of runTask calls that have returned
    peer                \* a second entity instance with the same outputDir

vars == <<pc, frame, proc, clock, taskHistory, pendingApprovals,
          approvalsFile, started, worktree, index, head, sh,
          notif, lookup, returns, peer>>

gitVars == <<worktree, index, head>>
agentVars == <<taskHistory, pendingApprovals, approvalsFile>>
auxVars == <<notif, lookup, returns, peer>>

\* ------------------------------------------------------------ data model

NoRequest == [taskId |-> <<"none", 0>>, description |-> "", details |-> "",
              options |-> <<>>, createdAt |-> 0]

NoResult == [success |-> FALSE, output |-> "", filesChanged |-> <<>>,
             duration |-> 0, commitHash |-> <<"undefined">>,
             needsApproval |-> FALSE]

NoProc == [shell |-> "none", engine |-> "none", forked |-> FALSE]

\* The default value of requestApproval's options parameter.
DefaultOptions == <<"Approve", "Reject", "Modify">>

NewFrame(method, env) ==
    [method |-> method, env |-> env, startTime |-> 0,
     notified |-> <<>>, settled |-> 0,
     request |-> NoRequest, reqIdx |-> 0, wrote |-> FALSE,
     outcome |-> "none", stdout |-> "", stderr |-> "", result |-> NoResult,
     issueNumber |-> <<>>, changedFiles |-> <<>>, gitCmds |-> <<>>,
     commit |-> [hash |-> <<"null">>, files |-> <<>>, message |-> <<>>],
     ghCmds |-> <<>>, value |-> "none",
     histIdx |-> 0, pushes |-> 0, execs |-> 0, channelFailed |-> FALSE,
     chan |-> [file |-> "off", macos |-> "off", sms |-> "off"],
     ret |-> "none"]

IdleFrame == NewFrame("none", "none")

\* JSON.stringify of one ApprovalRequest: the Date becomes its ISO string.
ToJSON(request) ==
    [taskId |-> request.taskId, description |-> request.description,
     details |-> request.details, options |-> request.options,
     createdAt |-> <<"iso", request.createdAt>>]

\* JSON.stringify(this.pendingApprovals, null, 2): the whole list, in order.
JSONstringify(list) == [i \in 1..Len(list) |-> ToJSON(list[i])]

Free(c) == pc[c] \in {"idle", "returned", "rejected"}

\* Where a BaseAgent method returns to: its caller, or the line of fixBug
\* that awaited it.
ReturnsTo(method, label) == IF method = "fixBug" THEN label ELSE "returned"

\* The entity methods that request approval after their task succeeded.
ApprovalAfter(method) ==
    method \in {"designNetwork", "configureVPN", "setupGcpProject"}

\* Where runTask returns to: a method that goes on after it, or the caller.
TaskReturnsTo(method) ==
    IF ApprovalAfter(method) THEN "m_ran" ELSE ReturnsTo(method, "fb_ran")

\* ------------------------------------------------- Notifier.notify dispatch

Channels == {"file", "macos", "sms"}

\* defaultNotificationConfig, which every agent configuration uses.
defaultNotificationConfig ==
    [fileEnabled |-> TRUE, macosEnabled |-> TRUE, smsEnabled |-> FALSE,
     smsPhone |-> FALSE]

\* The notifier of an agent on a machine where every channel works.
NoNotifier == [config |-> defaultNotificationConfig, broken |-> {},
               log |-> <<>>]

\* The channels notify pushes a promise for.
EnabledChannels(config) ==
    {ch \in Channels :
        \/ ch = "file" /\ config.fileEnabled
        \/ ch = "macos" /\ config.macosEnabled
        \/ ch = "sms" /\ config.smsEnabled /\ config.smsPhone}

\* notify(message) as seen by the calling method: the synchronous dispatch
\* to the channels; the await resumes in a later step (NotifySettled).
NotifyDispatch(f, message) == [f EXCEPT !.notified = Append(@, message)]

\* The enabled channels whose delivery fails at the moment.
FailedChannels == notif.broken \cap EnabledChannels(notif.config)

\* What a channel's promise settles as: notifyFile is an async function
\* whose mkdirSync / appendFileSync throw; notifyMacOS and notifySMS
\* resolve in the exec callback, error or not.
ChannelPromise(ch, failed) ==
    IF ch = "file" /\ ch \in failed THEN "rejected" ELSE "fulfilled"

\* A notify that awaits its channels with Promise.all.
NotifyRejectsAsAll(failed) ==
    \E ch \in failed : ChannelPromise(ch, failed) = "rejected"

\* await Promise.allSettled(promises): notify never rejects.
NotifyRejects(failed) == FALSE

NotifySettled(f) ==
    [f EXCEPT !.settled = Len(f.notified),
              !.channelFailed = @ \/ FailedChannels # {}]

\* --------------------------------------------------------- Notifier.notify

MaxNotifies == 2

Levels == {"info", "error"}

\* level.toUpperCase().
ToUpperCase(level) == IF level = "info" THEN "INFO" ELSE "ERROR"

\* The line notifyFile appends: the timestamp, the level, the agent and the
\* message.  The timestamp is the moment notify was invoked, counted in
\* invocations.
Formatted(timestamp, message, level) ==
    [timestamp |-> timestamp, level |-> ToUpperCase(level), agent |-> "Agent",
     message |-> message]

\* A file channel that writes each line to the front of the log.
LogPrepend(log, line) == <<line>> \o log

\* fs.appendFileSync(logPath, formatted).
appendFileSync(log, line) == Append(log, line)

\* The promises notify collects, in the order file, macOS, SMS.  notifyFile
\* runs to its end inside the call: the line is appended, or the
\* directory or the file cannot be written and the promise is rejected.
\* notifyMacOS and notifySMS start osascript and stay pending.
Dispatched(config, broken) ==
    [ch \in Channels |->
        IF ch \notin EnabledChannels(config) THEN "off"
        ELSE IF ch # "file" THEN "pending"
        ELSE IF ch \in broken THEN "failed" ELSE "delivered"]

\* A notify that returns as soon as one promise has settled.
AwaitedFirst(chan) ==
    \/ \A ch \in Channels : chan[ch] = "off"
    \/ \E ch \in Channels : chan[ch] \in {"delivered", "failed"}

\* await Promise.allSettled(promises): every promise has settled.
Awaited(chan) == \A ch \in Channels : chan[ch] # "pending"

\* notify(message, level) up to its await.
Notify(c, message, level) ==
    /\ Free(c)
    /\ started < MaxNotifies
    /\ started' = started + 1
    /\ LET chan == Dispatched(notif.config, notif.broken)
       IN /\ frame' = [frame EXCEPT ![c] =
                         [NotifyDispatch(NewFrame("notify", level), message)
                            EXCEPT !.chan = chan]]
          /\ notif' = [notif EXCEPT !.log =
                         IF chan["file"] = "delivered"
                         THEN appendFileSync(@, Formatted(started + 1, message,
                                                          level))
                         ELSE @]
    /\ pc' = [pc EXCEPT ![c] = "n_wait"]
    /\ UNCHANGED <<proc, clock, agentVars, gitVars, sh, lookup, returns,
                   peer>>

\* The callback of exec(osascript ...) runs: a warning when it failed, and
\* resolve() in both cases.
ChannelDone(c, ch) ==
    /\ pc[c] = "n_wait"
    /\ frame[c].chan[ch] = "pending"
    /\ frame' = [frame EXCEPT ![c].chan[ch] =
                   IF ch \in notif.broken THEN "failed" ELSE "delivered"]
    /\ UNCHANGED <<pc, proc, clock, agentVars, started, gitVars, sh, auxVars>>

\* The await of notify resumes and notify returns.
NotifyReturn(c) ==
    /\ pc[c] = "n_wait"
    /\ Awaited(frame[c].chan)
    /\ LET failed == {ch \in Channels : frame[c].chan[ch] = "failed"}
       IN IF NotifyRejects(failed)
          THEN /\ frame' = [frame EXCEPT ![c].ret = "threw"]
               /\ pc' = [pc EXCEPT ![c] = "rejected"]
          ELSE /\ frame' = [frame EXCEPT ![c].settled = Len(frame[c].notified),
                                         ![c].channelFailed = failed # {},
                                         ![c].ret = "void"]
               /\ pc' = [pc EXCEPT ![c] = "returned"]
    /\ UNCHANGED <<proc, clock, agentVars, started, gitVars, sh, auxVars>>

\* A channel in use stops working (the log directory becomes read-only,
\* osascript is missing) or works again.
ToggleChannel(ch) ==
    /\ ch \in EnabledChannels(notif.config)
    /\ notif' = [notif EXCEPT !.broken =
                   IF ch \in @ THEN @ \ {ch} ELSE @ \cup {ch}]
    /\ UNCHANGED <<pc, frame, proc, clock, agentVars, started, gitVars, sh,
                   lookup, returns, peer>>

\* ------------------------------------------------------- BaseAgent.runTask

\* What promisify(exec) settles with, by what became of the subprocess.
Outcomes == {"exit0", "nonzero", "timeout", "overflow", "spawnfail"}

\* error.message of the rejection of execAsync.
ErrorMessage(outcome) ==
    CASE outcome = "overflow" -> "stdout maxBuffer length exceeded"
      [] outcome = "spawnfail" -> "spawn /bin/sh ENOENT"
      [] OTHER -> "Command failed: claude --print"

\* execAsync resolves only for a zero exit inside the timeout and the cap.
ExecResolves(outcome) == outcome = "exit0"

\* A runTask that reports every settled subprocess as a success.
TaskResultAlwaysSuccess(outcome, stdout, stderr, duration) ==
    [success |-> TRUE, output |-> stdout, filesChanged |-> <<>>,
     duration |-> duration,
          commitHash |-> <<"undefined">>, needsApproval |-> FALSE]

\* A runTask whose failure output is stderr alone.
TaskResultStderrOnly(outcome, stdout, stderr, duration) ==
    IF ExecResolves(outcome)
    THEN [success |-> TRUE, output |-> stdout, filesChanged |-> <<>>,
          duration |-> duration,
          commitHash |-> <<"undefined">>, needsApproval |-> FALSE]
    ELSE [success |-> FALSE, output |-> stderr, filesChanged |-> <<>>,
          duration |-> duration,
          commitHash |-> <<"undefined">>, needsApproval |-> FALSE]

\* The TaskResult runTask builds: the try branch or the catch branch.
TaskResultOf(outcome, stdout, stderr, duration) ==
    IF ExecResolves(outcome)
    THEN [success |-> TRUE, output |-> stdout, filesChanged |-> <<>>,
          duration |-> duration,
          commitHash |-> <<"undefined">>, needsApproval |-> FALSE]
    ELSE [success |-> FALSE,
          output |-> IF stderr # "" THEN stderr ELSE ErrorMessage(outcome),
          filesChanged |-> <<>>, duration |-> duration,
          commitHash |-> <<"undefined">>, needsApproval |-> FALSE]

\* A runTask that writes back the history it read before its awaits: the
\* entry another call pushed meanwhile is replaced.
HistoryPushOverwrite(history, result) ==
    IF history = <<>> THEN <<result>>
    ELSE [history EXCEPT ![Len(history)] = result]

\* A runTask that records only the tasks that succeeded.
HistoryPushSuccessOnly(history, result) ==
    IF result.success THEN Append(history, result) ELSE history

\* this.taskHistory.push(taskResult), in the try and in the catch branch.
HistoryPush(history, result) == Append(history, result)

\* BaseAgent.getStatus, the fields computed from the agent's state.
getStatus ==
    [tasksCompleted |-> Len(taskHistory),
     tasksSucceeded |-> Len(SelectSeq(taskHistory, LAMBDA t : t.success)),
     isRunning |-> FALSE,
     pendingApprovals |-> Len(pendingApprovals)]

\* The notification runTask sends for a result.
ResultMessage(result) ==
    IF result.success THEN "Task completed successfully" ELSE "Task failed"

\* A runTask that does not await the "Starting task..." notification.
RunTaskEnterNoAwait(c, f) ==
    /\ frame' = [frame EXCEPT ![c] =
                   NotifyDispatch([f EXCEPT !.startTime = clock],
                                  "Starting task...")]
    /\ pc' = [pc EXCEPT ![c] = "rt_exec"]
    /\ UNCHANGED <<pendingApprovals, approvalsFile>>

\* runTask up to its first await: the start time, the log line and the
\* dispatch of the "Starting task..." notification.
RunTaskEnter(c, f) ==
    /\ frame' = [frame EXCEPT ![c] =
                   NotifyDispatch([f EXCEPT !.startTime = clock],
                                  "Starting task...")]
    /\ pc' = [pc EXCEPT ![c] = "rt_starting"]
    /\ UNCHANGED <<pendingApprovals, approvalsFile>>

\* exec's timeout and maxBuffer handling: kill() signals the child it
\* spawned, which is the shell.  A shell that forked the engine leaves it
\* running; a shell that exec'ed the engine is the engine.
KillChild(p) ==
    [p EXCEPT !.shell = "killed",
              !.engine = IF p.forked THEN "running" ELSE "killed"]

ProcAfter(p, outcome) ==
    CASE outcome \in {"exit0", "nonzero"} ->
           [p EXCEPT !.shell = "exited", !.engine = "exited"]
      [] outcome \in {"timeout", "overflow"} -> KillChild(p)
      [] OTHER -> p

\* The "Starting task..." notification has settled: execAsync spawns
\* /bin/sh -c "claude ...".
StartingNotified(c) ==
    /\ pc[c] = "rt_starting"
    /\ IF NotifyRejects(FailedChannels)
       THEN /\ frame' = [frame EXCEPT ![c] =
                           [NotifySettled(@) EXCEPT !.ret = "threw"]]
            /\ pc' = [pc EXCEPT ![c] = "rejected"]
            /\ UNCHANGED proc
       ELSE /\ \E spawned \in BOOLEAN, forked \in BOOLEAN :
                 proc' = [proc EXCEPT ![c] =
                            IF spawned
                            THEN [shell |-> "running", engine |-> "running",
                                  forked |-> forked]
                            ELSE NoProc]
            /\ frame' = [frame EXCEPT ![c] =
                           [NotifySettled(@) EXCEPT !.execs = @ + 1]]
            /\ pc' = [pc EXCEPT ![c] = "rt_exec"]
    /\ UNCHANGED <<clock, agentVars, started, gitVars, sh, auxVars>>

\* execAsync settles: the TaskResult is built and pushed on the history,
\* and the result notification is dispatched.  startTime is not read again.
ExecSettled(c) ==
    /\ pc[c] = "rt_exec"
    /\ \E outcome \in Outcomes, stdout \in {"", "out"}, stderr \in {"", "err"} :
         /\ (outcome = "spawnfail") <=> (proc[c].shell = "none")
         /\ stdout = "out" <=> outcome = "exit0"
         /\ stderr = "err" => outcome = "nonzero"
         /\ LET result == TaskResultOf(outcome, stdout, stderr,
                                       clock - frame[c].startTime)
            IN /\ taskHistory' = HistoryPush(taskHistory, result)
               /\ frame' = [frame EXCEPT ![c] =
                     NotifyDispatch([@ EXCEPT !.startTime = 0,
                                              !.outcome = outcome,
                                              !.stdout = stdout,
                                              !.stderr = stderr,
                                              !.result = result,
                                              !.histIdx = Len(taskHistory) + 1,
                                              !.pushes = @ + 1],
                                    ResultMessage(result))]
         /\ proc' = [proc EXCEPT ![c] = ProcAfter(@, outcome)]
    /\ pc' = [pc EXCEPT ![c] = "rt_done"]
    /\ UNCHANGED <<clock, pendingApprovals, approvalsFile, started, gitVars,
                   sh, auxVars>>

\* The result notification has settled: runTask returns its TaskResult.
\* Were the await of the success notification to throw, it would do so
\* inside the try block and the catch branch would build, push and
\* announce a second result.
DoneNotified(c) ==
    /\ pc[c] = "rt_done"
    /\ IF ~NotifyRejects(FailedChannels)
       THEN /\ frame' = [frame EXCEPT ![c] =
                           [NotifySettled(@) EXCEPT !.ret = "result"]]
            /\ pc' = [pc EXCEPT ![c] = TaskReturnsTo(frame[c].method)]
            /\ returns' =
                 [tasks |-> returns.tasks + 1,
                  succeeded |-> returns.succeeded
                                + (IF frame[c].result.success THEN 1 ELSE 0)]
            /\ UNCHANGED taskHistory
       ELSE IF frame[c].result.success
       THEN LET result == [frame[c].result EXCEPT
                             !.success = FALSE,
                             !.output = "notification failed"]
            IN /\ taskHistory' = HistoryPush(taskHistory, result)
               /\ frame' = [frame EXCEPT ![c] =
                     NotifyDispatch([NotifySettled(@) EXCEPT
                                       !.result = result,
                                       !.histIdx = Len(taskHistory) + 1,
                                       !.pushes = @ + 1],
                                    ResultMessage(result))]
               /\ UNCHANGED <<pc, returns>>
       ELSE /\ frame' = [frame EXCEPT ![c] =
                           [NotifySettled(@) EXCEPT !.ret = "threw"]]
            /\ pc' = [pc EXCEPT ![c] = "rejected"]
            /\ UNCHANGED <<taskHistory, returns>>
    /\ UNCHANGED <<proc, clock, pendingApprovals, approvalsFile, started,
                   gitVars, sh, notif, lookup, peer>>

\* An engine process left behind by a killed shell ends on its own.
OrphanExit(c) ==
    /\ proc[c].engine = "running"
    /\ proc[c].shell = "killed"
    /\ proc' = [proc EXCEPT ![c].engine = "exited"]
    /\ UNCHANGED <<pc, frame, clock, agentVars, started, gitVars, sh, auxVars>>

\* ----------------------------------------------- BaseAgent.requestApproval

\* requestApproval up to its await: the request is built and pushed, the
\* snapshot file is overwritten with the whole list (writeFileSync throws
\* when the write fails), and the "approval" notification is dispatched.
RequestApprovalEnter(c, f, description, details, options, writeOK) ==
    LET request == [taskId |-> <<"approval_", clock>>,
                    description |-> description, details |-> details,
                    options |-> options, createdAt |-> clock]
        g == [f EXCEPT !.request = request,
                       !.reqIdx = Len(pendingApprovals) + 1]
    IN /\ pendingApprovals' = Append(pendingApprovals, request)
       /\ IF writeOK
          THEN /\ approvalsFile' = JSONstringify(pendingApprovals')
               /\ frame' = [frame EXCEPT ![c] =
                     NotifyDispatch([g EXCEPT !.wrote = TRUE], "Approval needed")]
               /\ pc' = [pc EXCEPT ![c] = "ra_notify"]
          ELSE /\ approvalsFile' = approvalsFile
               /\ frame' = [frame EXCEPT ![c] = [g EXCEPT !.ret = "threw"]]
               /\ pc' = [pc EXCEPT ![c] = "rejected"]

\* The "approval" notification has settled: requestApproval returns the
\* request, to its caller or to the entity method that awaited it.
ApprovalNotified(c) ==
    /\ pc[c] = "ra_notify"
    /\ IF frame[c].method = "requestApproval"
       THEN /\ frame' = [frame EXCEPT ![c] =
                           [NotifySettled(@) EXCEPT !.ret = "request"]]
            /\ pc' = [pc EXCEPT ![c] = "returned"]
       ELSE /\ frame' = [frame EXCEPT ![c] = NotifySettled(@)]
            /\ pc' = [pc EXCEPT ![c] =
                        IF ApprovalAfter(frame[c].method)
                        THEN "ra_after" ELSE "ra_returned"]
    /\ UNCHANGED <<proc, clock, agentVars, started, gitVars, sh, auxVars>>

\* The options callers of requestApproval pass.
OptionSets == {DefaultOptions, <<"Deploy", "Cancel">>, <<>>}

\* A caller invokes runTask (or work, which notifies and delegates to it).
CallRunTask(c) ==
    /\ Free(c) /\ started < MaxStarts
    /\ started' = started + 1
    /\ proc' = [proc EXCEPT ![c] = NoProc]
    /\ RunTaskEnter(c, NewFrame("runTask", "none"))
    /\ UNCHANGED <<clock, taskHistory, gitVars, sh, auxVars>>

\* A caller invokes requestApproval.
CallRequestApproval(c) ==
    /\ Free(c) /\ started < MaxStarts
    /\ started' = started + 1
    /\ proc' = [proc EXCEPT ![c] = NoProc]
    /\ \E options \in OptionSets, writeOK \in BOOLEAN :
         RequestApprovalEnter(c, NewFrame("requestApproval", "none"),
                              "Deploy prod", "confirm", options, writeOK)
    /\ UNCHANGED <<clock, taskHistory, gitVars, sh, auxVars>>

\* ------------------------------------------------ Quinn and Vera methods

\* An approval check that compares with the wrong literal.
NeedsApprovalFirstProd(method, env) ==
    method = "offboardTenant" \/ env = "prod"

\* Whether the method requests approval before it runs its task.
NeedsApprovalFirst(method, env) ==
    CASE method = "deployContainers" -> env = "production"
      [] method = "k8sDeploy" -> env = "production"
      [] method = "deployVertexAgent" -> env = "production" \/ env = "prod"
      [] method = "offboardTenant" -> TRUE
      [] OTHER -> FALSE

ApprovalDescription(method) ==
    CASE method = "deployContainers" -> "Production deployment"
      [] method = "designNetwork" -> "Network design ready"
      [] method = "configureVPN" -> "VPN config ready"
      [] method = "setupGcpProject" -> "GCP project setup ready"
      [] method = "k8sDeploy" -> "K8s production deployment"
      [] method = "deployVertexAgent" -> "Production agent deployment"
      [] OTHER -> "Tenant offboarding"

ApprovalOptions(method) ==
    CASE method = "deployContainers" -> <<"Deploy", "Cancel">>
      [] method \in {"designNetwork", "configureVPN"} -> DefaultOptions
      [] method = "setupGcpProject" ->
           <<"Approve", "Reject", "Request Changes">>
      [] method = "k8sDeploy" -> <<"Deploy", "Cancel">>
      [] method = "deployVertexAgent" ->
           <<"Deploy", "Cancel", "Deploy to Staging First">>
      [] OTHER -> <<"Proceed", "Cancel", "Extend Retention">>

\* The body of an entity method from its approval check on: the approval
\* request when the target is flagged, else straight to runTask.
MethodProceed(c, f, writeOK) ==
    IF NeedsApprovalFirst(f.method, f.env)
    THEN RequestApprovalEnter(c, f, ApprovalDescription(f.method),
                              "confirm", ApprovalOptions(f.method), writeOK)
    ELSE RunTaskEnter(c, f)

\* An entity method that notifies first: dispatch, then await.
MethodEnter(c, method, env) ==
    /\ Free(c) /\ started < MaxEntityCalls
    /\ started' = started + 1
    /\ proc' = [proc EXCEPT ![c] = NoProc]
    /\ frame' = [frame EXCEPT ![c] =
                   NotifyDispatch(NewFrame(method, env), "Deploying")]
    /\ pc' = [pc EXCEPT ![c] = "m_notify"]
    /\ UNCHANGED <<clock, agentVars, gitVars, sh, auxVars>>

DeployContainers(c) ==
    \E env \in {"production", "staging"} :
        MethodEnter(c, "deployContainers", env)

DeployVertexAgent(c) ==
    \E env \in {"production", "prod", "staging"} :
        MethodEnter(c, "deployVertexAgent", env)

OffboardTenant(c) == MethodEnter(c, "offboardTenant", "none")

\* k8sDeploy sends no notification of its own before the approval check.
K8sDeploy(c) ==
    /\ Free(c) /\ started < MaxEntityCalls
    /\ started' = started + 1
    /\ proc' = [proc EXCEPT ![c] = NoProc]
    /\ \E namespace \in {"production", "default"}, writeOK \in BOOLEAN :
         MethodProceed(c, NewFrame("k8sDeploy", namespace), writeOK)
    /\ UNCHANGED <<clock, taskHistory, gitVars, sh, auxVars>>

\* The method's own notification has settled.
MethodNotified(c) ==
    /\ pc[c] = "m_notify"
    /\ \E writeOK \in BOOLEAN : MethodProceed(c, NotifySettled(frame[c]), writeOK)
    /\ UNCHANGED <<proc, clock, taskHistory, started, gitVars, sh, auxVars>>

\* An entity method that waits for the pending list to be cleared.
ApprovalReturnedGated(c) ==
    /\ pc[c] = "ra_returned"
    /\ pendingApprovals = <<>>
    /\ RunTaskEnter(c, frame[c])
    /\ UNCHANGED <<proc, clock, taskHistory, started, gitVars, sh, auxVars>>

\* requestApproval has returned to the entity method, which goes on to
\* build its prompt and call runTask.
ApprovalReturned(c) ==
    /\ pc[c] = "ra_returned"
    /\ RunTaskEnter(c, frame[c])
    /\ UNCHANGED <<proc, clock, taskHistory, started, gitVars, sh, auxVars>>

DesignNetwork(c) == MethodEnter(c, "designNetwork", "none")

ConfigureVPN(c) == MethodEnter(c, "configureVPN", "none")

SetupGcpProject(c) == MethodEnter(c, "setupGcpProject", "dev")

\* runTask has returned to a method that asks for a review of what the
\* task produced: a failed result is returned as it is, after a successful
\* one requestApproval is called.
MethodTaskReturned(c) ==
    /\ pc[c] = "m_ran"
    /\ IF frame[c].result.success
       THEN \E writeOK \in BOOLEAN :
              RequestApprovalEnter(c, frame[c],
                                   ApprovalDescription(frame[c].method),
                                   "review", ApprovalOptions(frame[c].method),
                                   writeOK)
       ELSE /\ pc' = [pc EXCEPT ![c] = "returned"]
            /\ UNCHANGED <<frame, pendingApprovals, approvalsFile>>
    /\ UNCHANGED <<proc, clock, taskHistory, started, gitVars, sh, auxVars>>

\* result.needsApproval = true: Quinn's designNetwork and configureVPN
\* write it, Vera's setupGcpProject does not.
SetsNeedsApproval(method) == method \in {"designNetwork", "configureVPN"}

\* requestApproval has returned to such a method: the flag is written into
\* the result, which is the object on the task history, and the result is
\* returned.
ApprovalAfterReturned(c) ==
    /\ pc[c] = "ra_after"
    /\ LET flag == SetsNeedsApproval(frame[c].method)
       IN /\ frame' = [frame EXCEPT ![c].result.needsApproval = @ \/ flag,
                                    ![c].ret = "result"]
          /\ taskHistory' =
               [taskHistory EXCEPT ![frame[c].histIdx].needsApproval =
                                     @ \/ flag]
    /\ pc' = [pc EXCEPT ![c] = "returned"]
    /\ UNCHANGED <<proc, clock, pendingApprovals, approvalsFile, started,
                   gitVars, sh, auxVars>>

\* ------------------------------------- the command line runTask executes

\* The characters prompts are made of, by name; "a" stands for any
\* ordinary one.
QUOTE == "double quote"
BSLASH == "backslash"
BTICK == "backtick"
DOLLAR == "dollar"
LPAREN == "left paren"
SEMI == "semicolon"
BLANK == "blank"
NEWLINE == "newline"

Chars == {"a", BLANK, QUOTE, BTICK, DOLLAR, LPAREN, BSLASH, SEMI}

Strings(n) == UNION {[1..k -> Chars] : k \in 0..n}

\* The role preambles: a plain one, and one that quotes a branch pattern in
\* backticks as the Quinn configuration does.
SystemPrompts == {<<"a">>, <<BTICK, "a", BTICK>>}

\* str.replace(/"/g, '\\"'): every double quote gets a backslash.
RECURSIVE Escape(_)
Escape(s) ==
    IF s = <<>> THEN <<>>
    ELSE (IF Head(s) = QUOTE THEN <<BSLASH, QUOTE>> ELSE <<Head(s)>>)
         \o Escape(Tail(s))

\* The template literal handed to exec: one string for /bin/sh -c.
CommandLine(systemPrompt, prompt) ==
    <<"claude", BLANK, "--print", BLANK, "--system-prompt", BLANK, QUOTE>>
    \o Escape(systemPrompt) \o <<QUOTE, BLANK, QUOTE>>
    \o Escape(prompt) \o <<QUOTE>>

\* How /bin/sh reads the string: words split at blanks; inside double
\* quotes a backslash escapes only $ ` " \ ; a backslash and the newline
\* after it are dropped; a backtick, $( or $name
\* (or $$) starts a substitution inside and outside double quotes;
\* outside them ; or a newline ends the command and ( opens a subshell.
RECURSIVE ShellRead(_, _, _, _, _, _)
ShellRead(cmd, i, mode, word, inWord, argv) ==
    IF i > Len(cmd)
    THEN IF mode = "dq"
         THEN [status |-> "syntax error", argv |-> argv]
         ELSE [status |-> "ok",
               argv |-> IF inWord THEN Append(argv, word) ELSE argv]
    ELSE
    LET ch == cmd[i]
        nx == IF i < Len(cmd) THEN cmd[i + 1] ELSE "eof"
        interpreted == [status |-> "interpreted", argv |-> argv]
        literal == ShellRead(cmd, i + 1, mode, Append(word, ch), TRUE, argv)
    IN  CASE ch = BTICK -> interpreted
          [] ch = DOLLAR ->
               IF nx \in {LPAREN, "a", DOLLAR} THEN interpreted ELSE literal
          [] ch = QUOTE ->
               ShellRead(cmd, i + 1, IF mode = "dq" THEN "plain" ELSE "dq",
                         word, TRUE, argv)
          [] ch = BSLASH /\ nx = NEWLINE ->
               ShellRead(cmd, i + 2, mode, word, inWord, argv)
          [] ch = BSLASH /\ mode = "dq" ->
               IF nx \in {DOLLAR, BTICK, QUOTE, BSLASH}
               THEN ShellRead(cmd, i + 2, mode, Append(word, nx), TRUE, argv)
               ELSE literal
          [] ch = BSLASH /\ mode = "plain" ->
               IF nx = "eof" THEN literal
               ELSE ShellRead(cmd, i + 2, mode, Append(word, nx), TRUE, argv)
          [] ch \in {SEMI, LPAREN, NEWLINE} /\ mode = "plain" -> interpreted
          [] ch = BLANK /\ mode = "plain" ->
               ShellRead(cmd, i + 1, mode, <<>>, FALSE,
                         IF inWord THEN Append(argv, word) ELSE argv)
          [] OTHER -> literal

\* What the engine is started with.
ShellDelivers(cmd) == ShellRead(cmd, 1, "plain", <<>>, FALSE, <<>>)

\* runTask builds the command line from the preamble and the prompt.
BuildCommand ==
    /\ sh.phase = "input"
    /\ sh' = [sh EXCEPT !.phase = "command",
                        !.command = CommandLine(sh.systemPrompt, sh.prompt)]
    /\ UNCHANGED <<pc, frame, proc, clock, agentVars, started, gitVars,
                   auxVars>>

\* exec runs /bin/sh -c on it.
ShellExec ==
    /\ sh.phase = "command"
    /\ sh' = [sh EXCEPT !.phase = "delivered",
                        !.result = ShellDelivers(sh.command)]
    /\ UNCHANGED <<pc, frame, proc, clock, agentVars, started, gitVars,
                   auxVars>>

\* ---------------------------------------------------------- GitHubClient

MaxGhCalls == 2

GhOps == {"getIssues", "getIssue", "addLabel", "removeLabel", "addComment",
          "createPullRequest"}

\* What becomes of the gh subprocess and of its output: a zero exit with
\* the JSON asked for, a non-zero exit (or gh missing), a zero exit with
\* output that JSON.parse rejects, and one with JSON of another shape
\* (no labels array, not a list).
GhOutcomes == {"ok", "nonzero", "not json", "wrong shape"}

\* The operations that JSON.parse stdout and map over the fields.
GhParses(op) == op \in {"getIssues", "getIssue"}

\* Something inside the operation's body raises: execAsync rejects, or
\* JSON.parse or a .map on a missing field throws.
GhRaises(op, outcome) ==
    \/ outcome = "nonzero"
    \/ GhParses(op) /\ outcome \in {"not json", "wrong shape"}

\* A client whose try blocks end before the parsing of the output.
GhCaughtExecOnly(op, outcome) == outcome = "nonzero"

\* The try block holds the whole body of every operation.
GhCaught(op, outcome) == TRUE

\* The value of the catch branch.
GhFailureValue(op) ==
    CASE op = "getIssues" -> "[]"
      [] op \in {"getIssue", "createPullRequest"} -> "null"
      [] OTHER -> "false"

\* The value of the try branch.
GhSuccessValue(op) ==
    CASE op = "getIssues" -> "issues"
      [] op = "getIssue" -> "issue"
      [] op = "createPullRequest" -> "url"
      [] OTHER -> "true"

GhRun(f, command) == [f EXCEPT !.ghCmds = Append(@, command)]

\* A caller invokes one operation of the client: the gh subprocess is
\* started and awaited.
GhCall(c, op) ==
    /\ Free(c)
    /\ started < MaxGhCalls
    /\ started' = started + 1
    /\ frame' = [frame EXCEPT ![c] = GhRun(NewFrame(op, "none"), op)]
    /\ pc' = [pc EXCEPT ![c] = "gh_exec"]
    /\ UNCHANGED <<proc, clock, agentVars, gitVars, sh, auxVars>>

\* The subprocess has ended: the operation returns the value of its try
\* branch or of its catch branch, or rejects with what nothing caught.
GhSettled(c) ==
    /\ pc[c] = "gh_exec"
    /\ frame[c].method \in GhOps
    /\ \E outcome \in GhOutcomes :
         LET op == frame[c].method
         IN IF ~GhRaises(op, outcome)
            THEN /\ frame' = [frame EXCEPT ![c].outcome = outcome,
                                           ![c].value = GhSuccessValue(op),
                                           ![c].ret = "value"]
                 /\ pc' = [pc EXCEPT ![c] = "returned"]
            ELSE IF GhCaught(op, outcome)
            THEN /\ frame' = [frame EXCEPT ![c].outcome = outcome,
                                           ![c].value = GhFailureValue(op),
                                           ![c].ret = "value"]
                 /\ pc' = [pc EXCEPT ![c] = "returned"]
            ELSE /\ frame' = [frame EXCEPT ![c].outcome = outcome,
                                           ![c].ret = "threw"]
                 /\ pc' = [pc EXCEPT ![c] = "rejected"]
    /\ UNCHANGED <<proc, clock, agentVars, started, gitVars, sh, auxVars>>

\* ------------------------------------------------------------- GitClient

\* The tracked files of the project, in the order git lists them.
FileOrder == <<"a", "b">>
Files == {FileOrder[i] : i \in 1..Len(FileOrder)}

\* stdout of `git diff --name-only`: one line per tracked file with
\* unstaged changes.
RECURSIVE DiffOutput(_, _)
DiffOutput(changed, i) ==
    IF i > Len(FileOrder) THEN <<>>
    ELSE (IF FileOrder[i] \in changed THEN <<FileOrder[i], NEWLINE>> ELSE <<>>)
         \o DiffOutput(changed, i + 1)

\* String.prototype.trim.
RECURSIVE TrimEnd(_)
TrimEnd(s) ==
    IF s # <<>> /\ s[Len(s)] \in {NEWLINE, BLANK}
    THEN TrimEnd(SubSeq(s, 1, Len(s) - 1)) ELSE s

RECURSIVE TrimStart(_)
TrimStart(s) ==
    IF s # <<>> /\ Head(s) \in {NEWLINE, BLANK} THEN TrimStart(Tail(s)) ELSE s

Trim(s) == TrimEnd(TrimStart(s))

\* output.split('\n'): the pieces between the newlines, empty ones kept.
RECURSIVE Split(_, _)
Split(s, piece) ==
    IF s = <<>> THEN <<piece>>
    ELSE IF Head(s) = NEWLINE THEN <<piece>> \o Split(Tail(s), <<>>)
    ELSE Split(Tail(s), Append(piece, Head(s)))

\* .filter(Boolean): the empty strings are dropped.
FilterBoolean(pieces) == SelectSeq(pieces, LAMBDA x : x # <<>>)

\* GitClient.diffNames on the stdout of the subprocess.
DiffNames(stdout) ==
    LET output == Trim(stdout)
    IN IF output # <<>> THEN FilterBoolean(Split(output, <<>>)) ELSE <<>>

\* ---------------------------------------------- BaseAgent.commitChanges

\* if (issueNumber): undefined and 0 are falsy.
Truthy(issueNumber) == issueNumber # <<>> /\ issueNumber[1] # 0

\* The message commitChanges passes to git.commit.
FullMessage(message, issueNumber, name) ==
    <<message>>
    \o (IF Truthy(issueNumber) THEN <<"\n\nFixes #", issueNumber[1]>> ELSE <<>>)
    \o <<"\n\nCo-Authored-By: ", name, " <noreply@entity.com>">>

\* The same message character by character, as the template literals build
\* it from the caller's message.
FullMessageText(message, issueNumber, name) ==
    message
    \o (IF Truthy(issueNumber)
        THEN <<NEWLINE, NEWLINE, "Fixes", BLANK, "#", ToString(issueNumber[1])>>
        ELSE <<>>)
    \o <<NEWLINE, NEWLINE, "Co-Authored-By:", BLANK, name, BLANK,
          "<noreply@entity.com>">>

\* GitClient.commit without an author: the string handed to /bin/sh -c.
\* The message is put between double quotes as it is.
GitCommitLine(message) ==
    <<"git", BLANK, "commit", BLANK, "-m", BLANK, QUOTE>>
    \o message \o <<QUOTE, BLANK>>

\* commitChanges composes the message and GitClient.commit the command.
BuildCommitCommand ==
    /\ sh.phase = "input"
    /\ sh.program = "git"
    /\ sh' = [sh EXCEPT
                !.phase = "command",
                !.command = GitCommitLine(
                    FullMessageText(sh.message, sh.issueNumber, "Sydney"))]
    /\ UNCHANGED <<pc, frame, proc, clock, agentVars, started, gitVars,
                   auxVars>>

\* A commitChanges that goes on to stage and commit whatever diff says.
NothingToCommitNever(changedFiles) == FALSE

\* if (changedFiles.length === 0) return { hash: null, files: [] }.
NothingToCommit(changedFiles) == Len(changedFiles) = 0

GitRun(f, command) == [f EXCEPT !.gitCmds = Append(@, command)]

\* An edit of a tracked file in the working tree (the engine's work, or
\* the user's).
EditFile ==
    /\ \E file \in Files : worktree' = worktree \cup {file}
    /\ worktree' # worktree
    /\ UNCHANGED <<pc, frame, proc, clock, agentVars, started, index, head, sh, auxVars>>

\* Somebody stages a file outside the entity.
StageFile ==
    /\ \E file \in worktree :
         /\ worktree' = worktree \ {file}
         /\ index' = index \cup {file}
    /\ UNCHANGED <<pc, frame, proc, clock, agentVars, started, head, sh, auxVars>>

\* commitChanges up to its first await: `git diff --name-only` is started.
CommitChanges(c) ==
    /\ Free(c) /\ started < MaxCommits
    /\ started' = started + 1
    /\ \E issueNumber \in {<<>>, <<0>>, <<7>>} :
         frame' = [frame EXCEPT ![c] =
                     GitRun([NewFrame("commitChanges", "none")
                               EXCEPT !.issueNumber = issueNumber], "diff")]
    /\ pc' = [pc EXCEPT ![c] = "cc_diff"]
    /\ UNCHANGED <<proc, clock, agentVars, gitVars, sh, auxVars>>

\* git diff has settled.  A failure rejects (GitClient.run has no catch);
\* no changes returns at once; otherwise `git add .` is started.
DiffSettled(c) ==
    /\ pc[c] = "cc_diff"
    /\ \E ok \in BOOLEAN :
         IF ~ok
         THEN /\ frame' = [frame EXCEPT ![c] =
                             [@ EXCEPT !.outcome = "diff failed", !.ret = "threw"]]
              /\ pc' = [pc EXCEPT ![c] = "rejected"]
         ELSE LET changedFiles == DiffNames(DiffOutput(worktree, 1))
                  f == [frame[c] EXCEPT !.outcome = "diffed",
                                        !.changedFiles = changedFiles]
              IN IF NothingToCommit(changedFiles)
                 THEN /\ frame' = [frame EXCEPT ![c] =
                            [f EXCEPT !.commit = [hash |-> <<"null">>,
                                                  files |-> <<>>,
                                                  message |-> <<>>],
                                      !.ret = "commit"]]
                      /\ pc' = [pc EXCEPT ![c] =
                                  ReturnsTo(frame[c].method, "fb_committed")]
                 ELSE /\ frame' = [frame EXCEPT ![c] = GitRun(f, "add")]
                      /\ pc' = [pc EXCEPT ![c] = "cc_add"]
    /\ UNCHANGED <<proc, clock, agentVars, started, gitVars, sh, auxVars>>

\* git add has settled.  A failure rejects; otherwise the message gets its
\* trailers and `git commit` is started.
AddSettled(c) ==
    /\ pc[c] = "cc_add"
    /\ \E ok \in BOOLEAN :
         IF ~ok
         THEN /\ frame' = [frame EXCEPT ![c] =
                             [@ EXCEPT !.outcome = "add failed", !.ret = "threw"]]
              /\ pc' = [pc EXCEPT ![c] = "rejected"]
              /\ UNCHANGED <<worktree, index>>
         ELSE /\ index' = index \cup worktree
              /\ worktree' = {}
              /\ frame' = [frame EXCEPT ![c] =
                     GitRun([@ EXCEPT !.commit.message =
                               FullMessage("msg", frame[c].issueNumber, "Agent")],
                            "commit")]
              /\ pc' = [pc EXCEPT ![c] = "cc_commit"]
    /\ UNCHANGED <<proc, clock, agentVars, started, head, sh, auxVars>>

\* git commit has settled.  It fails when nothing is staged, or for any
\* other reason; GitClient.commit catches that and returns null.
CommitSettled(c) ==
    /\ pc[c] = "cc_commit"
    /\ \E ok \in BOOLEAN :
         IF ok /\ index # {}
         THEN /\ head' = head + 1
              /\ index' = {}
              /\ frame' = [frame EXCEPT ![c] = GitRun(@, "rev-parse")]
              /\ pc' = [pc EXCEPT ![c] = "cc_revparse"]
         ELSE /\ frame' = [frame EXCEPT ![c] =
                     [@ EXCEPT !.outcome = "commit failed",
                               !.commit.files = frame[c].changedFiles,
                               !.ret = "commit"]]
              /\ pc' = [pc EXCEPT ![c] =
                          ReturnsTo(frame[c].method, "fb_committed")]
              /\ UNCHANGED <<head, index>>
    /\ UNCHANGED <<proc, clock, agentVars, started, worktree, sh, auxVars>>

\* git rev-parse HEAD has settled: the hash, or null when it failed.
RevParseSettled(c) ==
    /\ pc[c] = "cc_revparse"
    /\ \E ok \in BOOLEAN :
         frame' = [frame EXCEPT ![c] =
             [@ EXCEPT !.outcome = IF ok THEN "committed" ELSE "rev-parse failed",
                       !.commit.hash = IF ok THEN <<"commit", head>>
                                       ELSE <<"null">>,
                       !.commit.files = frame[c].changedFiles,
                       !.ret = "commit"]]
    /\ pc' = [pc EXCEPT ![c] = ReturnsTo(frame[c].method, "fb_committed")]
    /\ UNCHANGED <<proc, clock, agentVars, started, gitVars, sh, auxVars>>

\* ---------------------------------------------------- SydneyAgent.fixBug

MaxFixes == 1

\* The result fixBug returns when getIssue gave null; it is not pushed on
\* the task history.
IssueNotFound ==
    [success |-> FALSE, output |-> "Issue #N not found",
     filesChanged |-> <<>>, duration |-> 0,
     commitHash |-> <<"undefined">>, needsApproval |-> FALSE]

\* commit.hash || undefined.
HashOrUndefined(hash) == IF hash = <<"null">> THEN <<"undefined">> ELSE hash

\* fixBug(issueNumber) up to its first await: gh issue view is started.
FixBug(c) ==
    /\ Free(c)
    /\ started < MaxFixes
    /\ started' = started + 1
    /\ frame' = [frame EXCEPT ![c] =
                   GhRun([NewFrame("fixBug", "none") EXCEPT
                            !.issueNumber = <<7>>], "getIssue")]
    /\ pc' = [pc EXCEPT ![c] = "fb_issue"]
    /\ UNCHANGED <<proc, clock, agentVars, gitVars, sh, auxVars>>

\* getIssue has settled: without an issue fixBug returns the not-found
\* result, with one it dispatches the "Working on" notification.
IssueSettled(c) ==
    /\ pc[c] = "fb_issue"
    /\ \E outcome \in GhOutcomes :
         IF GhRaises("getIssue", outcome)
         THEN IF GhCaught("getIssue", outcome)
              THEN /\ frame' = [frame EXCEPT ![c].value = GhFailureValue("getIssue"),
                                             ![c].result = IssueNotFound,
                                             ![c].ret = "result"]
                   /\ pc' = [pc EXCEPT ![c] = "returned"]
              ELSE /\ frame' = [frame EXCEPT ![c].ret = "threw"]
                   /\ pc' = [pc EXCEPT ![c] = "rejected"]
         ELSE /\ frame' = [frame EXCEPT ![c] =
                     NotifyDispatch([@ EXCEPT !.value = GhSuccessValue("getIssue")],
                                    "Working on: title")]
              /\ pc' = [pc EXCEPT ![c] = "fb_notify"]
    /\ UNCHANGED <<proc, clock, agentVars, started, gitVars, sh, auxVars>>

\* The notification has settled: gh issue edit --add-label is started.
WorkingNotified(c) ==
    /\ pc[c] = "fb_notify"
    /\ frame' = [frame EXCEPT ![c] = GhRun(NotifySettled(@), "addLabel")]
    /\ pc' = [pc EXCEPT ![c] = "fb_label"]
    /\ UNCHANGED <<proc, clock, agentVars, started, gitVars, sh, auxVars>>

\* addLabel has settled, true or false: fixBug builds the prompt and calls
\* runTask.
LabelSettled(c) ==
    /\ pc[c] = "fb_label"
    /\ \E outcome \in {"ok", "nonzero"} :
         RunTaskEnter(c, [frame[c] EXCEPT
                            !.value = IF GhRaises("addLabel", outcome)
                                      THEN GhFailureValue("addLabel")
                                      ELSE GhSuccessValue("addLabel")])
    /\ UNCHANGED <<proc, clock, taskHistory, started, gitVars, sh, auxVars>>

\* A fixBug that commits whatever the task returned.
CommitsAfterAny(result) == TRUE

\* if (result.success): the gate in front of commitChanges and addComment.
CommitsAfter(result) == result.success

\* runTask has returned to fixBug: a failed task is returned as it is, a
\* successful one goes on to commitChanges, whose git diff is started.
TaskReturned(c) ==
    /\ pc[c] = "fb_ran"
    /\ IF CommitsAfter(frame[c].result)
       THEN /\ frame' = [frame EXCEPT ![c] = GitRun(@, "diff")]
            /\ pc' = [pc EXCEPT ![c] = "cc_diff"]
       ELSE /\ pc' = [pc EXCEPT ![c] = "returned"]
            /\ UNCHANGED frame
    /\ UNCHANGED <<proc, clock, agentVars, started, gitVars, sh, auxVars>>

\* commitChanges has returned to fixBug: the files are written into the
\* result, which is the object on the task history, and the comment on the
\* issue is started.
CommitReturned(c) ==
    /\ pc[c] = "fb_committed"
    /\ frame' = [frame EXCEPT ![c] =
                   GhRun([@ EXCEPT !.result.commitHash =
                                     HashOrUndefined(frame[c].commit.hash),
                                   !.result.filesChanged =
                                     frame[c].commit.files], "addComment")]
    /\ taskHistory' =
         [taskHistory EXCEPT
            ![frame[c].histIdx].commitHash =
                HashOrUndefined(frame[c].commit.hash),
            ![frame[c].histIdx].filesChanged = frame[c].commit.files]
    /\ pc' = [pc EXCEPT ![c] = "fb_comment"]
    /\ UNCHANGED <<proc, clock, pendingApprovals, approvalsFile, started,
                   gitVars, sh, auxVars>>

\* addComment has settled, true or false: fixBug returns the result.
CommentSettled(c) ==
    /\ pc[c] = "fb_comment"
    /\ \E outcome \in {"ok", "nonzero"} :
         frame' = [frame EXCEPT ![c].value =
                     IF GhRaises("addComment", outcome)
                     THEN GhFailureValue("addComment")
                     ELSE GhSuccessValue("addComment")]
    /\ pc' = [pc EXCEPT ![c] = "returned"]
    /\ UNCHANGED <<proc, clock, agentVars, started, gitVars, sh, auxVars>>

\* ---------------------------------------------------------------- getAgent

MaxNameLen == 3

HYPHEN == "hyphen"

\* The pieces of text names are made of; "x" stands for any other text.
NamePieces == {"quinn", "Quinn", "brett", "jr", "Jr", "constructor",
               "__proto__", "x", BLANK, HYPHEN}

Names == UNION {[1..k -> NamePieces] : k \in 0..MaxNameLen}

\* name.toLowerCase(), piece by piece.
ToLowerCase(piece) ==
    CASE piece = "Quinn" -> "quinn"
      [] piece = "Jr" -> "jr"
      [] OTHER -> piece

\* name.toLowerCase().replace(/[\s-]/g, '').
Normalized(name) ==
    SelectSeq([i \in 1..Len(name) |-> ToLowerCase(name[i])],
              LAMBDA piece : piece \notin {BLANK, HYPHEN})

\* Object.keys(AGENTS): the registry's own keys, two of them here.
AGENTS == {<<"quinn">>, <<"brett", "jr">>}

\* AGENTS[normalized]: AGENTS is an object literal, so a key it does not
\* own is looked up on Object.prototype, which has two properties with
\* all-lower-case names: constructor (the function Object) and __proto__
\* (Object.prototype itself).
AgentClassOf(normalized) ==
    IF normalized \in AGENTS THEN "agent class"
    ELSE IF normalized = <<"constructor">> THEN "function Object"
    ELSE IF normalized = <<"__proto__">> THEN "Object.prototype"
    ELSE "undefined"

\* getAgent(name): the truthiness test, the error and the construction.
GetAgentResult(name) ==
    LET normalized == Normalized(name)
        AgentClass == AgentClassOf(normalized)
    IN CASE AgentClass = "undefined" ->
              [outcome |-> "Error: Unknown agent", agent |-> <<>>,
               listed |-> AGENTS]
         [] AgentClass = "agent class" ->
              [outcome |-> "agent", agent |-> normalized, listed |-> {}]
         [] AgentClass = "function Object" ->
              [outcome |-> "plain object", agent |-> <<>>, listed |-> {}]
         [] OTHER ->
              [outcome |-> "TypeError: not a constructor", agent |-> <<>>,
               listed |-> {}]

GetAgent ==
    /\ lookup.phase = "input"
    /\ lookup' = [phase |-> "done", name |-> lookup.name,
                  result |-> GetAgentResult(lookup.name)]
    /\ UNCHANGED <<pc, frame, proc, clock, agentVars, started, gitVars, sh,
                   notif, returns, peer>>

\* ------------------------------------------------------------ environment

\* A millisecond passes.
Tick ==
    /\ clock < MaxClock
    /\ clock' = clock + 1
    /\ UNCHANGED <<pc, frame, proc, agentVars, started, gitVars, sh, auxVars>>

\* ----------------------------------------------------------- specification

NoShell == [phase |-> "none", program |-> "none",
            systemPrompt |-> <<>>, prompt |-> <<>>,
            message |-> <<>>, issueNumber |-> <<>>,
            command |-> <<>>, result |-> [status |-> "none", argv |-> <<>>]]

NoLookup == [phase |-> "none", name |-> <<>>,
             result |-> [outcome |-> "none", agent |-> <<>>, listed |-> {}]]

NoReturns == [tasks |-> 0, succeeded |-> 0]

\* The second instance: its own pending list, and whether a write of its
\* requestApproval has thrown.
NoPeer == [pendingApprovals |-> <<>>, threw |-> FALSE]

\* Everything but the command line, the notifier and the lookup: no call
\* made yet, a clean project.
InitAgent ==
    /\ pc = [c \in Calls |-> "idle"]
    /\ frame = [c \in Calls |-> IdleFrame]
    /\ proc = [c \in Calls |-> NoProc]
    /\ clock = 0
    /\ taskHistory = <<>>
    /\ pendingApprovals = <<>>
    /\ approvalsFile = <<>>
    /\ started = 0
    /\ worktree = {}
    /\ index = {}
    /\ head = 0
    /\ returns = NoReturns
    /\ peer = NoPeer

Init ==
    /\ pc = [c \in Calls |-> "idle"]
    /\ frame = [c \in Calls |-> IdleFrame]
    /\ proc = [c \in Calls |-> NoProc]
    /\ clock = 0
    /\ taskHistory = <<>>
    /\ pendingApprovals = <<>>
    /\ approvalsFile = <<>>
    /\ started = 0
    /\ worktree = {}
    /\ index = {}
    /\ head = 0
    /\ sh = NoShell
    /\ notif = NoNotifier
    /\ lookup = NoLookup
    /\ returns = NoReturns
    /\ peer = NoPeer

\* Callers of the BaseAgent methods, two of them at a time.
Next ==
    \/ Tick
    \/ \E c \in Calls :
         \/ CallRunTask(c)
         \/ CallRequestApproval(c)
         \/ ApprovalNotified(c)
         \/ StartingNotified(c)
         \/ ExecSettled(c)
         \/ DoneNotified(c)
         \/ OrphanExit(c)

Spec == Init /\ [][Next]_vars

\* The call slot the entity methods are invoked in, one after the other.
EntityCalls == {"c1"}

NextEntity ==
    \/ Tick
    \/ \E c \in EntityCalls :
         \/ DeployContainers(c)
         \/ K8sDeploy(c)
         \/ DeployVertexAgent(c)
         \/ OffboardTenant(c)
         \/ DesignNetwork(c)
         \/ ConfigureVPN(c)
         \/ SetupGcpProject(c)
         \/ MethodTaskReturned(c)
         \/ ApprovalAfterReturned(c)
         \/ MethodNotified(c)
         \/ ApprovalNotified(c)
         \/ ApprovalReturned(c)
         \/ StartingNotified(c)
         \/ ExecSettled(c)
         \/ DoneNotified(c)
         \/ OrphanExit(c)

SpecEntity == Init /\ [][NextEntity]_vars

\* Callers of commitChanges over a working tree that changes under them.
NextGit ==
    \/ EditFile
    \/ StageFile
    \/ \E c \in Calls :
         \/ CommitChanges(c)
         \/ DiffSettled(c)
         \/ AddSettled(c)
         \/ CommitSettled(c)
         \/ RevParseSettled(c)

SpecGit == Init /\ [][NextGit]_vars

\* The command line of runTask, for every preamble and prompt.
InitShell ==
    /\ pc = [c \in Calls |-> "idle"]
    /\ frame = [c \in Calls |-> IdleFrame]
    /\ proc = [c \in Calls |-> NoProc]
    /\ clock = 0
    /\ taskHistory = <<>>
    /\ pendingApprovals = <<>>
    /\ approvalsFile = <<>>
    /\ started = 0
    /\ worktree = {}
    /\ index = {}
    /\ head = 0
    /\ notif = NoNotifier
    /\ lookup = NoLookup
    /\ returns = NoReturns
    /\ peer = NoPeer
    /\ \E systemPrompt \in SystemPrompts, prompt \in Strings(MaxLen) :
         sh = [NoShell EXCEPT !.phase = "input", !.program = "claude",
                              !.systemPrompt = systemPrompt,
                              !.prompt = prompt]

NextShell == BuildCommand \/ ShellExec

SpecShell == InitShell /\ [][NextShell]_vars

\* What the agents notify: progress at the default level, failures as
\* errors.
Notifications == {<<"m1", "info">>, <<"m2", "error">>}

\* getAgent on every name.
InitRegistry ==
    /\ InitAgent
    /\ sh = NoShell
    /\ notif = NoNotifier
    /\ \E name \in Names : lookup = [NoLookup EXCEPT !.phase = "input",
                                                      !.name = name]

NextRegistry == GetAgent

SpecRegistry == InitRegistry /\ [][NextRegistry]_vars

\* The notification configurations an agent can be given.
NotificationConfigs ==
    [fileEnabled : BOOLEAN, macosEnabled : BOOLEAN, smsEnabled : BOOLEAN,
     smsPhone : BOOLEAN]

InitNotify ==
    /\ InitAgent
    /\ sh = NoShell
    /\ lookup = NoLookup
    /\ \E config \in NotificationConfigs :
         notif = [NoNotifier EXCEPT !.config = config]

\* Callers of notify while channels break and recover.
NextNotify ==
    \/ \E ch \in Channels : ToggleChannel(ch)
    \/ \E c \in Calls :
         \/ \E n \in Notifications : Notify(c, n[1], n[2])
         \/ \E ch \in Channels : ChannelDone(c, ch)
         \/ NotifyReturn(c)

SpecNotify == InitNotify /\ [][NextNotify]_vars

\* Two runTask calls on an agent whose notification channels break and
\* recover.
NextNotifyTask ==
    \/ \E ch \in Channels : ToggleChannel(ch)
    \/ \E c \in Calls :
         \/ CallRunTask(c)
         \/ StartingNotified(c)
         \/ ExecSettled(c)
         \/ DoneNotified(c)
         \/ OrphanExit(c)

SpecNotifyTask == Init /\ [][NextNotifyTask]_vars

\* fixBug, one call after the other, while the engine and others edit the
\* project's files.
NextFixBug ==
    \/ EditFile
    \/ Tick
    \/ \E c \in EntityCalls :
         \/ FixBug(c)
         \/ IssueSettled(c)
         \/ WorkingNotified(c)
         \/ LabelSettled(c)
         \/ StartingNotified(c)
         \/ ExecSettled(c)
         \/ DoneNotified(c)
         \/ OrphanExit(c)
         \/ TaskReturned(c)
         \/ DiffSettled(c)
         \/ AddSettled(c)
         \/ CommitSettled(c)
         \/ RevParseSettled(c)
         \/ CommitReturned(c)
         \/ CommentSettled(c)

SpecFixBug == Init /\ [][NextFixBug]_vars

\* The most requests the second instance makes.
MaxPeerCalls == 2

\* requestApproval of a second entity instance of the process, say Vera
\* offboarding a tenant next to Quinn: the request is pushed on that
\* instance's own list and the list is written to the path both instances
\* derive from the default outputDir.  Its notification touches nothing the
\* two share.
PeerRequestApproval ==
    /\ Len(peer.pendingApprovals) < MaxPeerCalls
    /\ \E writeOK \in BOOLEAN :
         LET request == [taskId |-> <<"approval_", clock>>,
                         description |-> ApprovalDescription("offboardTenant"),
                         details |-> "confirm",
                         options |-> ApprovalOptions("offboardTenant"),
                         createdAt |-> clock]
             list == Append(peer.pendingApprovals, request)
         IN /\ peer' = [pendingApprovals |-> list,
                         threw |-> peer.threw \/ ~writeOK]
            /\ approvalsFile' = IF writeOK THEN JSONstringify(list)
                                           ELSE approvalsFile
    /\ UNCHANGED <<pc, frame, proc, clock, taskHistory, pendingApprovals,
                   started, gitVars, sh, notif, lookup, returns>>

\* Two entity instances of one process calling requestApproval.
NextPeers ==
    \/ Tick
    \/ PeerRequestApproval
    \/ \E c \in EntityCalls :
         \/ CallRequestApproval(c)
         \/ ApprovalNotified(c)

SpecPeers == Init /\ [][NextPeers]_vars

\* The most entries the approvals file of an earlier process holds.
MaxPrior == 2

\* The requests an earlier process left behind: tenant offboardings it
\* asked approval for at its time 0.
PriorRequest ==
    [taskId |-> <<"approval_", 0>>, description |-> "Tenant offboarding",
     details |-> "confirm", options |-> ApprovalOptions("offboardTenant"),
     createdAt |-> 0]

\* pending_approvals.json as an earlier process wrote it last.
PriorFiles ==
    {JSONstringify([i \in 1..k |-> PriorRequest]) : k \in 1..MaxPrior}

\* A constructor that reads the pending list back from the file.
LoadPendingFromFile(file) ==
    [i \in 1..Len(file) |->
        [taskId |-> file[i].taskId, description |-> file[i].description,
         details |-> file[i].details, options |-> file[i].options,
         createdAt |-> file[i].createdAt[2]]]

\* protected pendingApprovals: ApprovalRequest[] = []: a new instance
\* starts with an empty list, whatever the file holds.
LoadPending(file) == <<>>

\* A new entity instance in a new process, over the approvals file of an
\* earlier one.
InitRestart ==
    /\ pc = [c \in Calls |-> "idle"]
    /\ frame = [c \in Calls |-> IdleFrame]
    /\ proc = [c \in Calls |-> NoProc]
    /\ clock = 0
    /\ taskHistory = <<>>
    /\ approvalsFile \in PriorFiles
    /\ pendingApprovals = LoadPending(approvalsFile)
    /\ started = 0
    /\ worktree = {}
    /\ index = {}
    /\ head = 0
    /\ sh = NoShell
    /\ notif = NoNotifier
    /\ lookup = NoLookup
    /\ returns = NoReturns
    /\ peer = NoPeer

\* Callers of requestApproval after the restart.
NextRestart ==
    \/ Tick
    \/ \E c \in Calls :
         \/ CallRequestApproval(c)
         \/ ApprovalNotified(c)

SpecRestart == InitRestart /\ [][NextRestart]_vars

\* Callers of the GitHubClient operations.
NextGitHub ==
    \E c \in Calls :
        \/ \E op \in GhOps : GhCall(c, op)
        \/ GhSettled(c)

SpecGitHub == Init /\ [][NextGitHub]_vars

\* The command line of GitClient.commit, for every message a caller passes
\* and with and without an issue number.
IssueNumbers == {<<>>, <<0>>, <<7>>}

InitCommitLine ==
    /\ InitAgent
    /\ notif = NoNotifier
    /\ lookup = NoLookup
    /\ \E message \in Strings(MaxLen), issueNumber \in IssueNumbers :
         sh = [NoShell EXCEPT !.phase = "input", !.program = "git",
                              !.message = message,
                              !.issueNumber = issueNumber]

NextCommitLine == BuildCommitCommand \/ ShellExec

SpecCommitLine == InitCommitLine /\ [][NextCommitLine]_vars

\* The scheduling of the event loop: a continuation that is ready runs, and
\* a notification that was dispatched settles.
FairEntity ==
    /\ SpecEntity
    /\ \A c \in EntityCalls :
         /\ WF_vars(MethodNotified(c))
         /\ WF_vars(ApprovalNotified(c))
         /\ WF_vars(ApprovalReturned(c))
         /\ WF_vars(StartingNotified(c))

\* ------------------------------------------------------------------ claims

\* The notifications of call c that have settled.
StartingSettled(c) ==
    \E i \in 1..frame[c].settled : frame[c].notified[i] = "Starting task..."

ResultNotified(c) ==
    \E i \in 1..Len(frame[c].notified) :
        frame[c].notified[i] \in {"Task completed successfully", "Task failed"}

\* C1: within one runTask call the "Starting task..." notification has
\* settled before the engine subprocess is started, and the subprocess has
\* settled (exit, timeout or overflow) before the result notification is
\* dispatched, on the success path and on the failure path.
C1_RunTaskOrdering ==
    \A c \in Calls :
        /\ (pc[c] = "rt_exec" \/ proc[c].shell # "none") => StartingSettled(c)
        /\ ResultNotified(c) =>
             /\ pc[c] \in {"rt_done", "returned"}
             /\ frame[c].outcome # "none"
             /\ proc[c].shell # "running"

C1_Witness ==
    /\ pc["c1"] = "returned" /\ frame["c1"].result.success
    /\ ResultNotified("c1") /\ proc["c1"].shell = "exited"
    /\ pc["c2"] = "returned" /\ ~frame["c2"].result.success
    /\ ResultNotified("c2") /\ proc["c2"].shell = "killed"

\* C2: runTask never rejects; for every engine outcome it returns a
\* TaskResult, with success = true and output = stdout exactly when the
\* subprocess exited zero within the timeout and the output cap.
C2_RunTaskAlwaysReturns ==
    \A c \in Calls :
        (frame[c].method = "runTask" /\ Free(c)) =>
            /\ pc[c] = "returned"
            /\ frame[c].ret = "result"
            /\ frame[c].result.success <=> frame[c].outcome = "exit0"
            /\ frame[c].result.success =>
                   frame[c].result.output = frame[c].stdout
            /\ \E i \in 1..Len(taskHistory) : taskHistory[i] = frame[c].result

C2_Witness ==
    /\ pc["c1"] = "returned" /\ frame["c1"].outcome = "exit0"
    /\ frame["c1"].result.output = "out"
    /\ pc["c2"] = "returned" /\ frame["c2"].outcome = "overflow"
    /\ ~frame["c2"].result.success

\* C3: a prompt or preamble with shell metacharacters reaches the engine as
\* one literal argument equal to the original string, and the shell
\* interprets no part of it.
C3_LiteralArgument ==
    sh.phase = "delivered" =>
        /\ sh.result.status = "ok"
        /\ sh.result.argv = << <<"claude">>, <<"--print">>,
                               <<"--system-prompt">>,
                               sh.systemPrompt, sh.prompt >>

\* C4: when the engine outlives the timeout, runTask returns success = false
\* and no process spawned for the call is still running at the return.
C4_TimeoutLeavesNoProcess ==
    \A c \in Calls :
        (pc[c] = "returned" /\ frame[c].method = "runTask"
            /\ frame[c].outcome = "timeout") =>
            /\ ~frame[c].result.success
            /\ proc[c].shell # "running"
            /\ proc[c].engine # "running"

\* C5: each requestApproval call lengthens the pending list by exactly one,
\* the list never shrinks or changes an entry, and when a call returns the
\* snapshot file holds exactly the entries of the whole list, in order.
C5_ApprovalMonotone ==
    [][/\ \/ pendingApprovals' = pendingApprovals
          \/ /\ Len(pendingApprovals') = Len(pendingApprovals) + 1
             /\ SubSeq(pendingApprovals', 1, Len(pendingApprovals))
                  = pendingApprovals
       /\ \A c \in Calls :
            /\ (frame'[c].method = "requestApproval" /\ started' # started
                  /\ pc[c] # pc'[c] /\ Free(c)) =>
                   Len(pendingApprovals') = Len(pendingApprovals) + 1
            /\ (pc[c] = "ra_notify" /\ pc'[c] = "returned") =>
                   approvalsFile' = JSONstringify(pendingApprovals')]_vars

\* C6: requestApproval never throws or rejects, whatever the state of the
\* output directory.
C6_RequestApprovalNeverThrows ==
    \A c \in Calls :
        frame[c].method = "requestApproval" => pc[c] # "rejected"

\* C7: no two entries of the pending list have the same taskId.
C7_UniqueTaskIds ==
    \A i, j \in 1..Len(pendingApprovals) :
        i # j => pendingApprovals[i].taskId # pendingApprovals[j].taskId

\* C8: in every entity method that requests approval before its task, once
\* requestApproval has returned the engine is invoked in the same call,
\* whatever the pending list holds and with no approval response read.
C8_ApprovalNeverHalts ==
    \A c \in EntityCalls :
        (pc[c] = "ra_returned") ~> (pc[c] = "rt_exec" /\ frame[c].reqIdx > 0)

C8_Witness ==
    \E c \in EntityCalls :
        /\ pc[c] = "rt_exec"
        /\ frame[c].method = "offboardTenant"
        /\ frame[c].reqIdx = Len(pendingApprovals)
        /\ Len(pendingApprovals) >= 1

\* The engine subprocess of call c has been started.
EngineStarted(c) == pc[c] \in {"rt_exec", "rt_done", "returned"}

\* C9: deployContainers(file, 'production') has appended its approval
\* request to the pending list and written it to the snapshot file before
\* the engine subprocess is started; with any other env no step of the call
\* records an approval request.
C9_DeployApprovalFirst ==
    /\ [](\A c \in EntityCalls :
            (frame[c].method = "deployContainers"
                /\ frame[c].env = "production" /\ EngineStarted(c)) =>
               /\ frame[c].reqIdx \in 1..Len(pendingApprovals)
               /\ pendingApprovals[frame[c].reqIdx] = frame[c].request
               /\ frame[c].request.description = "Production deployment"
               /\ frame[c].wrote
               /\ frame[c].reqIdx <= Len(approvalsFile)
               /\ approvalsFile[frame[c].reqIdx] = ToJSON(frame[c].request))
    /\ [][\A c \in EntityCalls :
            (frame'[c].method = "deployContainers"
                /\ frame'[c].env # "production") =>
               /\ pendingApprovals' = pendingApprovals
               /\ approvalsFile' = approvalsFile
               /\ frame'[c].reqIdx = 0]_vars

C9_Witness ==
    \E c \in EntityCalls :
        /\ pc[c] = "rt_exec"
        /\ frame[c].method = "deployContainers"
        /\ frame[c].env = "production"
        /\ frame[c].reqIdx = Len(pendingApprovals)
        /\ Len(approvalsFile) = Len(pendingApprovals)

\* C10: when diffNames reports no changes, commitChanges returns
\* {hash: null, files: []} and runs neither `git add` nor `git commit`.
C10_CommitNoOp ==
    \A c \in Calls :
        (frame[c].method = "commitChanges" /\ frame[c].outcome # "none"
            /\ frame[c].outcome # "diff failed"
            /\ frame[c].changedFiles = <<>>) =>
            /\ pc[c] = "returned"
            /\ frame[c].ret = "commit"
            /\ frame[c].commit.hash = <<"null">>
            /\ frame[c].commit.files = <<>>
            /\ frame[c].gitCmds = <<"diff">>

C10_Witness ==
    \E c \in Calls :
        /\ pc[c] = "returned"
        /\ frame[c].method = "commitChanges"
        /\ frame[c].outcome = "diffed"
        /\ frame[c].changedFiles = <<>>
        /\ frame[c].commit.hash = <<"null">>
        /\ index # {}

\* C11: every CommitResult that commitChanges returns with a non-null hash
\* has a non-empty file list, whatever the repository state and the
\* outcomes of the add and commit subprocesses.
C11_HashHasFiles ==
    \A c \in Calls :
        (frame[c].method = "commitChanges" /\ frame[c].ret = "commit"
            /\ frame[c].commit.hash # <<"null">>) =>
            /\ frame[c].commit.files # <<>>
            /\ frame[c].commit.files = frame[c].changedFiles

C11_Witness ==
    \E c \in Calls :
        /\ pc[c] = "returned"
        /\ frame[c].method = "commitChanges"
        /\ frame[c].commit.hash = <<"commit", 1>>
        /\ Len(frame[c].commit.files) = 2

\* C13: no version-control operation throws, so commitChanges never
\* rejects: a failed git subprocess (diff, add) gives it a failure signal
\* and it still returns a CommitResult.
C13_CommitNeverRejects ==
    \A c \in Calls :
        (frame[c].method = "commitChanges" /\ Free(c)) =>
            /\ pc[c] = "returned"
            /\ frame[c].ret = "commit"

\* C12: every commit that commitChanges attempts with an issue number N
\* (N >= 1, as tracked issues have) hands git one message argument: the
\* caller's message, then "Fixes #N", then the Co-Authored-By line.
C12_TrailerCarried ==
    (sh.phase = "delivered" /\ sh.program = "git"
        /\ sh.issueNumber # <<>> /\ sh.issueNumber[1] >= 1) =>
        /\ sh.result.status = "ok"
        /\ sh.result.argv =
             << <<"git">>, <<"commit">>, <<"-m">>,
                sh.message
                \o <<NEWLINE, NEWLINE, "Fixes", BLANK, "#",
                     ToString(sh.issueNumber[1])>>
                \o <<NEWLINE, NEWLINE, "Co-Authored-By:", BLANK, "Sydney",
                     BLANK, "<noreply@entity.com>">> >>

\* C14: every GitHubClient operation returns its documented failure value
\* ([] for getIssues, null for getIssue and createPullRequest, false for
\* the others) instead of raising, when the gh subprocess exits non-zero
\* and when its output is not the JSON the operation parses.
C14_GitHubNeverThrows ==
    \A c \in Calls :
        (frame[c].method \in GhOps /\ pc[c] # "gh_exec") =>
            /\ pc[c] = "returned"
            /\ frame[c].ret = "value"
            /\ (\/ frame[c].outcome = "nonzero"
                \/ /\ frame[c].outcome \in {"not json", "wrong shape"}
                   /\ frame[c].method \in {"getIssues", "getIssue"}) =>
                  frame[c].value =
                    CASE frame[c].method = "getIssues" -> "[]"
                      [] frame[c].method = "getIssue" -> "null"
                      [] frame[c].method = "createPullRequest" -> "null"
                      [] OTHER -> "false"

C14_Witness ==
    \E c, d \in Calls :
        /\ pc[c] = "returned" /\ frame[c].method = "getIssue"
        /\ frame[c].outcome = "not json" /\ frame[c].value = "null"
        /\ pc[d] = "returned" /\ frame[d].method = "addComment"
        /\ frame[d].outcome = "nonzero" /\ frame[d].value = "false"

\* C15: once the engine run inside fixBug has succeeded, fixBug returns a
\* TaskResult with success = true and does not throw, whatever fails
\* afterwards in git diff, add, commit or the issue comment.
C15_FixBugKeepsSuccess ==
    \A c \in Calls :
        (frame[c].method = "fixBug" /\ frame[c].histIdx > 0
            /\ taskHistory[frame[c].histIdx].success /\ Free(c)) =>
            /\ pc[c] = "returned"
            /\ frame[c].ret = "result"
            /\ frame[c].result.success

\* C20: every TaskResult with success = false has a non-empty output: the
\* results runTask pushes and returns, and the not-found result of fixBug.
C20_FailureHasOutput ==
    /\ \A i \in 1..Len(taskHistory) :
         ~taskHistory[i].success => taskHistory[i].output # ""
    /\ \A c \in Calls :
         (frame[c].ret = "result" /\ ~frame[c].result.success) =>
             frame[c].result.output # ""

C20_Witness ==
    \E c \in Calls :
        /\ pc[c] = "returned"
        /\ frame[c].method = "fixBug"
        /\ frame[c].outcome = "timeout" /\ frame[c].stderr = ""
        /\ ~frame[c].result.success
        /\ frame[c].result.output = "Command failed: claude --print"

\* C16: notify never raises and returns only after the delivery attempt of
\* every enabled channel has settled; a channel that fails does not keep
\* the others from being dispatched and completing, and the line of the
\* file channel is written with the message also when the desktop channel
\* fails.
C16_NotifySettlesAll ==
    \A c \in Calls :
        frame[c].method = "notify" =>
            /\ pc[c] # "rejected"
            /\ pc[c] = "returned" =>
                 /\ \A ch \in Channels :
                      IF \/ ch = "file" /\ notif.config.fileEnabled
                         \/ ch = "macos" /\ notif.config.macosEnabled
                         \/ ch = "sms" /\ notif.config.smsEnabled
                                       /\ notif.config.smsPhone
                      THEN frame[c].chan[ch] \in {"delivered", "failed"}
                      ELSE frame[c].chan[ch] = "off"
                 /\ frame[c].chan["file"] = "delivered" =>
                      \E i \in 1..Len(notif.log) :
                          notif.log[i].message = frame[c].notified[1]

C16_Witness ==
    \E c \in Calls :
        /\ pc[c] = "returned"
        /\ frame[c].method = "notify"
        /\ frame[c].chan["macos"] = "failed"
        /\ frame[c].chan["file"] = "delivered"
        /\ frame[c].chan["sms"] = "delivered"
        /\ \E i \in 1..Len(notif.log) :
             notif.log[i].message = frame[c].notified[1]

\* C17: two runTask calls whose engine subprocess ends the same way return
\* the same success flag and output and push one TaskResult each, although
\* a notification channel failed during one and none during the other.
C17_NotifyIndependence ==
    \A c, d \in Calls :
        (/\ pc[c] = "returned" /\ pc[d] = "returned"
         /\ frame[c].method = "runTask" /\ frame[d].method = "runTask"
         /\ frame[c].channelFailed /\ ~frame[d].channelFailed
         /\ frame[c].outcome = frame[d].outcome
         /\ frame[c].stdout = frame[d].stdout
         /\ frame[c].stderr = frame[d].stderr) =>
            /\ frame[c].result.success = frame[d].result.success
            /\ frame[c].result.output = frame[d].result.output
            /\ frame[c].pushes = 1 /\ frame[d].pushes = 1

C17_Witness ==
    \E c, d \in Calls :
        /\ pc[c] = "returned" /\ pc[d] = "returned"
        /\ frame[c].method = "runTask" /\ frame[d].method = "runTask"
        /\ frame[c].channelFailed /\ ~frame[d].channelFailed
        /\ frame[c].outcome = "exit0" /\ frame[d].outcome = "exit0"
        /\ frame[c].result.success /\ frame[d].result.success

\* C18: getAgent resolves a registered name, whatever its letter case,
\* interior whitespace and hyphens, to an agent of that entity, and for
\* every other name raises the error that lists the valid names and
\* constructs nothing.
C18_LookupTotal ==
    lookup.phase = "done" =>
        LET key == SelectSeq([i \in 1..Len(lookup.name) |->
                                 ToLowerCase(lookup.name[i])],
                             LAMBDA piece : piece \notin {BLANK, HYPHEN})
        IN IF key \in {<<"quinn">>, <<"brett", "jr">>}
           THEN lookup.result = [outcome |-> "agent", agent |-> key,
                                 listed |-> {}]
           ELSE lookup.result = [outcome |-> "Error: Unknown agent",
                                 agent |-> <<>>,
                                 listed |-> {<<"quinn">>, <<"brett", "jr">>}]

\* The runTask calls that have pushed their result and not yet returned.
PushedInFlight == {c \in Calls : pc[c] = "rt_done"}

\* C19 as stated: every runTask call appends exactly one TaskResult, and
\* whenever a runTask call returns, getStatus().tasksCompleted is the
\* number of runTask calls that have returned and tasksSucceeded the
\* number of those that returned success = true.
C19_StatusCountsReturned ==
    [][(\E c \in Calls : pc[c] = "rt_done" /\ pc'[c] = "returned") =>
          /\ getStatus.tasksCompleted' = returns.tasks'
          /\ getStatus.tasksSucceeded' = returns.succeeded']_vars

\* C19, amended: the history only grows at its end, by one TaskResult per
\* runTask call, and getStatus().tasksCompleted is the number of runTask
\* calls that have returned plus those that have pushed their result and
\* await their last notification (tasksSucceeded likewise); the counts are
\* those of the returned calls whenever no call is at that point.
C19_StatusCountsPushed ==
    [][/\ Len(taskHistory') >= Len(taskHistory)
       /\ SubSeq(taskHistory', 1, Len(taskHistory)) = taskHistory
       /\ getStatus.tasksCompleted' =
            returns.tasks' + Cardinality(PushedInFlight')
       /\ getStatus.tasksSucceeded' =
            returns.succeeded'
            + Cardinality({c \in PushedInFlight' : frame'[c].result.success})
       /\ \A c \in Calls :
            (frame'[c].method = "runTask" /\ pc'[c] = "returned") =>
                /\ frame'[c].pushes = 1
                /\ taskHistory'[frame'[c].histIdx] = frame'[c].result]_vars

C19_Witness ==
    /\ \A c \in Calls : pc[c] = "returned" /\ frame[c].method = "runTask"
    /\ returns = [tasks |-> 2, succeeded |-> 1]
    /\ getStatus.tasksCompleted = 2
    /\ getStatus.tasksSucceeded = 1

\* C21: no retry: a runTask call invokes execAsync exactly once, also when
\* the subprocess fails or times out, and the TaskResult it returns carries
\* the failure text of that one invocation (its stderr, or the error's
\* message when stderr is empty).
C21_NoRetry ==
    \A c \in Calls :
        frame[c].method = "runTask" =>
            /\ frame[c].execs <= 1
            /\ pc[c] \in {"rt_exec", "rt_done", "returned"} =>
                 frame[c].execs = 1
            /\ pc[c] = "returned" =>
                 /\ frame[c].ret = "result"
                 /\ frame[c].result.success = (frame[c].outcome = "exit0")
                 /\ ~frame[c].result.success =>
                      frame[c].result.output =
                        IF frame[c].stderr # "" THEN frame[c].stderr
                        ELSE ErrorMessage(frame[c].outcome)

C21_Witness ==
    \E c \in Calls :
        /\ pc[c] = "returned"
        /\ frame[c].method = "runTask"
        /\ frame[c].outcome = "timeout"
        /\ frame[c].execs = 1
        /\ frame[c].result.output = "Command failed: claude --print"

\* C22: every ApprovalRequest in the pending list has a non-empty option
\* list: the default three options when requestApproval is called without
\* options, and never zero options, an explicit empty array included.
C22_OptionsNonEmpty ==
    \A i \in 1..Len(pendingApprovals) :
        /\ pendingApprovals[i].options # <<>>
        /\ Len(pendingApprovals[i].options) >= 1

\* C23: with several runTask calls in flight on one entity, under every
\* interleaving of subprocess completions and notifications no TaskResult
\* is lost or duplicated: once all calls have returned, the history holds
\* exactly one entry per call, each equal to the result its caller got.
C23_NoLostResult ==
    (\A c \in Calls : Free(c)) =>
        /\ Len(taskHistory) = returns.tasks
        /\ \A c \in Calls :
             (frame[c].method = "runTask" /\ pc[c] = "returned") =>
                 /\ frame[c].histIdx \in 1..Len(taskHistory)
                 /\ taskHistory[frame[c].histIdx] = frame[c].result
                 /\ \A d \in Calls \ {c} :
                      (frame[d].method = "runTask" /\ pc[d] = "returned") =>
                          frame[d].histIdx # frame[c].histIdx

\* Both calls began at clock 0 and their subprocesses ended at clock 1, so
\* they were in flight together; the second to start pushed first.
C23_Witness ==
    /\ pc["c1"] = "returned" /\ pc["c2"] = "returned"
    /\ frame["c1"].method = "runTask" /\ frame["c2"].method = "runTask"
    /\ frame["c1"].result.duration = 1 /\ frame["c2"].result.duration = 1
    /\ clock = 1
    /\ frame["c1"].result.success /\ ~frame["c2"].result.success
    /\ Len(taskHistory) = 2
    /\ taskHistory[1] = frame["c2"].result
    /\ taskHistory[2] = frame["c1"].result

\* C24: a result that is on the task history keeps its success, output,
\* duration and needsApproval for good: no step of an entity method changes
\* any of them; only commitHash and filesChanged may be written later.
C24_ResultFrozen ==
    [][\A i \in 1..Len(taskHistory) :
         /\ taskHistory'[i].success = taskHistory[i].success
         /\ taskHistory'[i].output = taskHistory[i].output
         /\ taskHistory'[i].duration = taskHistory[i].duration
         /\ taskHistory'[i].needsApproval = taskHistory[i].needsApproval]_vars

\* C30: a result returned by a Quinn or Vera method has needsApproval set
\* exactly when that call put an approval request on the pending list.
C30_FlagMatchesRecord ==
    \A c \in Calls :
        (/\ pc[c] = "returned"
         /\ frame[c].ret = "result"
         /\ frame[c].method \in {"designNetwork", "configureVPN",
                                 "deployContainers", "k8sDeploy",
                                 "setupGcpProject", "deployVertexAgent",
                                 "offboardTenant"})
        => (frame[c].result.needsApproval <=> frame[c].reqIdx > 0)

\* C27: fixBug keeps its order and its gates. Without the issue it returns
\* the failure having started nothing but gh issue view: no label, no
\* notification, no engine, no commit, no comment. With the issue, the
\* in-progress label is added before the engine is invoked; commitChanges
\* and, after it has returned, addComment are called only after the engine
\* task returned success = true, and neither is called for a failed task.
C27_FixBugOrder ==
    \A c \in Calls :
        frame[c].method = "fixBug" =>
            /\ Len(frame[c].ghCmds) >= 1 /\ frame[c].ghCmds[1] = "getIssue"
            /\ (pc[c] = "returned" /\ frame[c].value = GhFailureValue("getIssue")
                  /\ frame[c].execs = 0) =>
                 /\ frame[c].result = IssueNotFound
                 /\ frame[c].ghCmds = <<"getIssue">>
                 /\ frame[c].notified = <<>>
                 /\ frame[c].gitCmds = <<>>
                 /\ frame[c].histIdx = 0
            /\ frame[c].execs >= 1 =>
                 /\ frame[c].ghCmds[2] = "addLabel"
                 /\ frame[c].notified[1] = "Working on: title"
            /\ (\/ frame[c].gitCmds # <<>>
                \/ (\E i \in 1..Len(frame[c].ghCmds) : frame[c].ghCmds[i] = "addComment")) =>
                 /\ frame[c].result.success
                 /\ frame[c].histIdx > 0
                 /\ taskHistory[frame[c].histIdx].success
            /\ (\E i \in 1..Len(frame[c].ghCmds) : frame[c].ghCmds[i] = "addComment") =>
                 /\ frame[c].ghCmds = <<"getIssue", "addLabel", "addComment">>
                 /\ frame[c].gitCmds # <<>>
                 /\ pc[c] \in {"fb_comment", "returned"}
            /\ (frame[c].ret = "result" /\ ~frame[c].result.success) =>
                 /\ frame[c].gitCmds = <<>>
                 /\ ~(\E i \in 1..Len(frame[c].ghCmds) : frame[c].ghCmds[i] = "addComment")
                 /\ pc[c] \in {"fb_ran", "returned"}

C27_Witness ==
    \E c \in Calls :
        /\ pc[c] = "returned"
        /\ frame[c].method = "fixBug"
        /\ frame[c].result.success
        /\ frame[c].ghCmds = <<"getIssue", "addLabel", "addComment">>
        /\ frame[c].gitCmds = <<"diff", "add", "commit", "rev-parse">>
        /\ frame[c].execs = 1

\* C28: fixBug comments on the issue only when a commit was created:
\* whenever addComment has been called, commitChanges returned a hash that
\* is not null, and the result fixBug returns carries it as commitHash.
C28_CommentOnlyWithCommit ==
    \A c \in Calls :
        (/\ frame[c].method = "fixBug"
         /\ \E i \in 1..Len(frame[c].ghCmds) : frame[c].ghCmds[i] = "addComment")
        => /\ frame[c].commit.hash # <<"null">>
           /\ frame[c].result.commitHash = frame[c].commit.hash

\* C25: the lines of the log file stand in the order in which notify was
\* invoked, and the line of a call is in the file from its invocation on,
\* also while desktop or SMS deliveries of earlier calls are pending.
C25_LogInInvocationOrder ==
    /\ \A i, j \in 1..Len(notif.log) :
         i < j => notif.log[i].timestamp < notif.log[j].timestamp
    /\ \A c \in Calls :
         (frame[c].method = "notify" /\ frame[c].chan["file"] = "delivered") =>
             \E i \in 1..Len(notif.log) :
                 notif.log[i].message = frame[c].notified[1]

C25_Witness ==
    /\ pc["c1"] = "n_wait" /\ pc["c2"] = "n_wait"
    /\ frame["c1"].chan["macos"] = "pending"
    /\ frame["c2"].chan["sms"] = "pending"
    /\ Len(notif.log) = 2
    /\ notif.log[1].timestamp = 1 /\ notif.log[2].timestamp = 2
    /\ notif.log[1].message = frame["c1"].notified[1]
    /\ notif.log[2].message = frame["c2"].notified[1]
    /\ notif.log[1].message # notif.log[2].message

\* C26: a new instance does not reload the pending list: over a file that
\* holds k >= 1 entries of an earlier process it starts with an empty list,
\* and its first requestApproval that writes leaves the file with exactly
\* the one new request and none of the prior entries.
C26_RestartOverwrites ==
    /\ started = 0 => pendingApprovals = <<>> /\ approvalsFile \in PriorFiles
    /\ \A c \in Calls :
         (started = 1 /\ frame[c].method = "requestApproval"
            /\ frame[c].wrote) =>
             /\ approvalsFile = <<ToJSON(frame[c].request)>>
             /\ \A i \in 1..Len(approvalsFile) :
                  approvalsFile[i] # ToJSON(PriorRequest)

C26_Witness ==
    \E c \in Calls :
        /\ started = 1
        /\ pc[c] = "returned"
        /\ frame[c].method = "requestApproval"
        /\ frame[c].wrote
        /\ Len(approvalsFile) = 1
        /\ approvalsFile[1].description = "Deploy prod"
        /\ pendingApprovals = <<frame[c].request>>

\* C29: with two entity instances on the default output directory, the
\* shared pending_approvals.json holds every request pending in either one:
\* a request one instance has written is not dropped from the file by a
\* later request of the other.
C29_SharedFileHoldsAll ==
    /\ \A c \in Calls :
         (pc[c] = "returned" /\ frame[c].method = "requestApproval") =>
             \E i \in 1..Len(approvalsFile) :
                 approvalsFile[i] = ToJSON(frame[c].request)
    /\ ~peer.threw =>
         \A j \in 1..Len(peer.pendingApprovals) :
             \E i \in 1..Len(approvalsFile) :
                 approvalsFile[i] = ToJSON(peer.pendingApprovals[j])

====
